---------------------------- MODULE Spec2Model ----------------------------
(***************************************************************************)
(* Model of Hashing_Algorithms.py: the SHA224 and SHA512 classes, their    *)
(* update()/digest()/hexdigest() methods, the bitwise helper functions,    *)
(* and the shortcut functions hash_SHA224() / hash_SHA512().               *)
(*                                                                         *)
(* Python integers are unbounded, so a non-negative integer is modelled as *)
(* the sequence of its digits in base 2^16, least significant first,       *)
(* without leading zeros (0 is the empty sequence).  Every bitwise         *)
(* operator and every addition of the source is computed on that           *)
(* representation, and the masks (& 0xFFFFFFFF ...) are applied exactly    *)
(* where the source applies them.  Bytes are the numbers 0..255; a         *)
(* bytearray is a sequence of bytes.                                       *)
(***************************************************************************)
EXTENDS Integers, Sequences, FiniteSets, TLC

(***************************************************************************)
(* Python integers                                                         *)
(***************************************************************************)
Max(m, n) == IF m >= n THEN m ELSE n
Min(m, n) == IF m <= n THEN m ELSE n

Base == 2^16

\* digit j (1 = least significant) of the integer x
Limb(x, j) == IF j >= 1 /\ j <= Len(x) THEN x[j] ELSE 0

\* canonical form: no leading zero digit
Norm(x) ==
  IF Len(x) = 0 \/ x[Len(x)] # 0 THEN x
  ELSE LET top == CHOOSE n \in 0..Len(x) :
                    /\ n = 0 \/ x[n] # 0
                    /\ \A j \in (n + 1)..Len(x) : x[j] = 0
       IN SubSeq(x, 1, top)

\* the Python integer with the value of the natural number n
RECURSIVE FromNat(_)
FromNat(n) == IF n = 0 THEN <<>> ELSE <<n % Base>> \o FromNat(n \div Base)

\* the number of binary digits of a digit d, and x.bit_length()
RECURSIVE Bits16(_)
Bits16(d) == IF d = 0 THEN 0 ELSE 1 + Bits16(d \div 2)

BitLength(x) == IF Len(x) = 0 THEN 0 ELSE 16 * (Len(x) - 1) + Bits16(x[Len(x)])

\* the literal 0xAAAABBBB, written W32(\hAAAA, \hBBBB)
W32(g1, g0) == Norm(<<g0, g1>>)

\* the literal 0xAAAABBBBCCCCDDDD
W64(g3, g2, g1, g0) == Norm(<<g0, g1, g2, g3>>)

\* a & b, a | b and a ^ b on single digits
RECURSIVE And16(_, _)
And16(a, b) ==
  IF a = 0 \/ b = 0 THEN 0
  ELSE IF a = Base - 1 THEN b
  ELSE IF b = Base - 1 THEN a
  ELSE (a % 2) * (b % 2) + 2 * And16(a \div 2, b \div 2)

Or16(a, b) == a + b - And16(a, b)
Xor16(a, b) == a + b - 2 * And16(a, b)

\* x & y
band(x, y) == Norm([j \in 1..Min(Len(x), Len(y)) |-> And16(x[j], y[j])])

\* x | y
bor(x, y) == [j \in 1..Max(Len(x), Len(y)) |-> Or16(Limb(x, j), Limb(y, j))]

\* x ^ y
bxor(x, y) == Norm([j \in 1..Max(Len(x), Len(y)) |-> Xor16(Limb(x, j), Limb(y, j))])

\* (~x) & y, for x >= 0 and y >= 0: ~x = -x-1 has a 1 wherever x has a 0, so
\* the result keeps the binary digits of y that x does not have
bandnot(x, y) == Norm([j \in 1..Len(y) |-> y[j] - And16(Limb(x, j), y[j])])

\* x + y: the carry into digit j, then the digits
RECURSIVE CarryInto(_, _, _)
CarryInto(x, y, j) ==
  IF j <= 1 THEN 0
  ELSE (Limb(x, j - 1) + Limb(y, j - 1) + CarryInto(x, y, j - 1)) \div Base

add(x, y) ==
  Norm([j \in 1..(Max(Len(x), Len(y)) + 1) |->
          (Limb(x, j) + Limb(y, j) + CarryInto(x, y, j)) % Base])

\* the masks of the source: 0xFFFFFFFF, 0xFFFFFFFFFFFFFFFF and the 128-bit one
M32 == [j \in 1..2 |-> Base - 1]
M64 == [j \in 1..4 |-> Base - 1]
M128 == [j \in 1..8 |-> Base - 1]

(***************************************************************************)
(* Module-level helper functions                                           *)
(***************************************************************************)
\* x << c
leftshift(x, c) ==
  LET q == c \div 16
      r == c % 16
  IN Norm([j \in 1..(IF Len(x) = 0 THEN 0 ELSE Len(x) + q + 1) |->
             (Limb(x, j - q) % 2^(16 - r)) * 2^r + Limb(x, j - q - 1) \div 2^(16 - r)])

\* x >> c
rightshift(x, c) ==
  LET q == c \div 16
      r == c % 16
  IN Norm([j \in 1..Max(Len(x) - q, 0) |->
             Limb(x, j + q) \div 2^r + (Limb(x, j + q + 1) % 2^r) * 2^(16 - r)])

rightrotate(x, c) ==
  LET y == band(x, M32)
  IN band(bor(rightshift(y, c), leftshift(y, 32 - c)), M32)

rightrotate_64(x, c) ==
  LET y == band(x, M64)
  IN band(bor(rightshift(y, c), leftshift(y, 64 - c)), M64)

(***************************************************************************)
(* bytes <-> int                                                           *)
(***************************************************************************)
\* the byte at position p (0 = last) of the byte string bs, 0 beyond its start
ByteAt(bs, p) == IF p < Len(bs) THEN bs[Len(bs) - p] ELSE 0

\* int.from_bytes(bs, byteorder='big'): the last two bytes are digit 1
from_bytes(bs) ==
  Norm([j \in 1..((Len(bs) + 1) \div 2) |->
          ByteAt(bs, 2 * (j - 1)) + 256 * ByteAt(bs, 2 * (j - 1) + 1)])

\* x.to_bytes(n, byteorder='big'), defined when x < 256^n
to_bytes(x, n) ==
  [j \in 1..n |->
     LET p == n - j
         d == Limb(x, p \div 2 + 1)
     IN IF p % 2 = 0 THEN d % 256 ELSE d \div 256]

(***************************************************************************)
(* class Hash                                                              *)
(***************************************************************************)
HexChars == <<"0", "1", "2", "3", "4", "5", "6", "7", "8", "9", "a", "b", "c", "d", "e", "f">>

\* hexadecimal digit j (1 = least significant) of x
Nibble(x, j) == (Limb(x, (j - 1) \div 4 + 1) \div 16^((j - 1) % 4)) % 16

\* the hexadecimal digits hi down to lo of x, as text
RECURSIVE HexRange(_, _, _)
HexRange(x, hi, lo) ==
  IF hi = lo THEN HexChars[Nibble(x, hi) + 1]
  ELSE LET mid == (hi + lo) \div 2
       IN HexRange(x, hi, mid + 1) \o HexRange(x, mid, lo)

\* mutant of format_0x: '{:x}', without the zero padding to width
format_x_unpadded(x, width) == HexRange(x, Max(1, (BitLength(x) + 3) \div 4), 1)

\* ('{:0' + str(width) + 'x}').format(x): the hexadecimal digits of x, at least
\* one, padded on the left with zeros to width (never cut)
format_0x(x, width) == HexRange(x, Max(width, Max(1, (BitLength(x) + 3) \div 4)), 1)

Reverse(s) == [j \in 1..Len(s) |-> s[Len(s) + 1 - j]]

\* x.to_bytes(n, byteorder=order)
to_bytes_order(x, n, order) == IF order = "big" THEN to_bytes(x, n) ELSE Reverse(to_bytes(x, n))

\* Hash.hexdigest, given the value digest() returned; to_bytes raises
\* OverflowError when the digest does not fit digest_size bytes
hexdigest(obj, digest) ==
  IF BitLength(digest) > 8 * obj.digest_size
  THEN "OverflowError"
  ELSE LET raw == to_bytes_order(digest, obj.digest_size, obj.byteorder)
       IN format_0x(from_bytes(raw), 2 * obj.digest_size)

\* sum(leftshift(x, width * i) for i, x in enumerate(xs)), from term i on
RECURSIVE SumShifted(_, _, _, _)
SumShifted(xs, width, i, acc) ==
  IF i >= Len(xs) THEN acc
  ELSE SumShifted(xs, width, i + 1, add(acc, leftshift(xs[i + 1], width * i)))

(***************************************************************************)
(* class SHA224                                                            *)
(***************************************************************************)
\* mutant of SHA224_h: the initial hash values of SHA-256
SHA256_h ==
  << W32(\h6a09, \he667), W32(\hbb67, \hae85), W32(\h3c6e, \hf372), W32(\ha54f, \hf53a),
     W32(\h510e, \h527f), W32(\h9b05, \h688c), W32(\h1f83, \hd9ab), W32(\h5be0, \hcd19) >>

SHA224_h ==
  << W32(\hc105, \h9ed8), W32(\h367c, \hd507), W32(\h3070, \hdd17), W32(\hf70e, \h5939),
     W32(\hffc0, \h0b31), W32(\h6858, \h1511), W32(\h64f9, \h8fa7), W32(\hbefa, \h4fa4) >>

SHA224_k ==
  << W32(\h428a, \h2f98), W32(\h7137, \h4491), W32(\hb5c0, \hfbcf), W32(\he9b5, \hdba5),
     W32(\h3956, \hc25b), W32(\h59f1, \h11f1), W32(\h923f, \h82a4), W32(\hab1c, \h5ed5),
     W32(\hd807, \haa98), W32(\h1283, \h5b01), W32(\h2431, \h85be), W32(\h550c, \h7dc3),
     W32(\h72be, \h5d74), W32(\h80de, \hb1fe), W32(\h9bdc, \h06a7), W32(\hc19b, \hf174),
     W32(\he49b, \h69c1), W32(\hefbe, \h4786), W32(\h0fc1, \h9dc6), W32(\h240c, \ha1cc),
     W32(\h2de9, \h2c6f), W32(\h4a74, \h84aa), W32(\h5cb0, \ha9dc), W32(\h76f9, \h88da),
     W32(\h983e, \h5152), W32(\ha831, \hc66d), W32(\hb003, \h27c8), W32(\hbf59, \h7fc7),
     W32(\hc6e0, \h0bf3), W32(\hd5a7, \h9147), W32(\h06ca, \h6351), W32(\h1429, \h2967),
     W32(\h27b7, \h0a85), W32(\h2e1b, \h2138), W32(\h4d2c, \h6dfc), W32(\h5338, \h0d13),
     W32(\h650a, \h7354), W32(\h766a, \h0abb), W32(\h81c2, \hc92e), W32(\h9272, \h2c85),
     W32(\ha2bf, \he8a1), W32(\ha81a, \h664b), W32(\hc24b, \h8b70), W32(\hc76c, \h51a3),
     W32(\hd192, \he819), W32(\hd699, \h0624), W32(\hf40e, \h3585), W32(\h106a, \ha070),
     W32(\h19a4, \hc116), W32(\h1e37, \h6c08), W32(\h2748, \h774c), W32(\h34b0, \hbcb5),
     W32(\h391c, \h0cb3), W32(\h4ed8, \haa4a), W32(\h5b9c, \hca4f), W32(\h682e, \h6ff3),
     W32(\h748f, \h82ee), W32(\h78a5, \h636f), W32(\h84c8, \h7814), W32(\h8cc7, \h0208),
     W32(\h90be, \hfffa), W32(\ha450, \h6ceb), W32(\hbef9, \ha3f7), W32(\hc671, \h78f2) >>

\* mutant of SHA224_init: the digest size of SHA-256
SHA224_init_32 ==
  [name |-> "SHA224", byteorder |-> "big", block_size |-> 64, digest_size |-> 32,
   hash_pieces |-> SHA224_h]

SHA224_init ==
  [name |-> "SHA224", byteorder |-> "big", block_size |-> 64, digest_size |-> 28,
   hash_pieces |-> SHA224_h]

\* mutant of SHA224_orig_len_in_bits: the length in bytes
SHA224_orig_len_in_bytes(n) == band(n, M64)

\* (8 * len(data)) & 0xFFFFFFFFFFFFFFFF, for len(data) = n
SHA224_orig_len_in_bits(n) == band(leftshift(n, 3), M64)

\* while len(data) % 64 != 56: data.append(0)
RECURSIVE SHA224_zero_fill(_)
SHA224_zero_fill(d) == IF Len(d) % 64 # 56 THEN SHA224_zero_fill(Append(d, 0)) ELSE d

\* step 1 of update: the padded buffer
SHA224_preprocess(arg) ==
  LET orig_len_in_bits == SHA224_orig_len_in_bits(FromNat(Len(arg)))
  IN SHA224_zero_fill(Append(arg, 128)) \o to_bytes(orig_len_in_bits, 8)

SHA224_s0(x) ==
  band(bxor(bxor(rightrotate(x, 7), rightrotate(x, 18)), rightshift(x, 3)), M32)

\* mutant of SHA224_s1: the shift amount of s0
SHA224_s1_shift3(x) ==
  band(bxor(bxor(rightrotate(x, 17), rightrotate(x, 19)), rightshift(x, 3)), M32)

SHA224_s1(x) ==
  band(bxor(bxor(rightrotate(x, 17), rightrotate(x, 19)), rightshift(x, 10)), M32)

\* steps 2.b: w[0..15] from the chunk, w[16..63] = 0
SHA224_words(chunks) ==
  [i \in 0..63 |-> IF i < 16 THEN from_bytes(SubSeq(chunks, 4 * i + 1, 4 * i + 4)) ELSE <<>>]

\* step 2.c: one pass of the loop for i in range(16, 64)
SHA224_extend(w, i) ==
  LET s0 == SHA224_s0(w[i - 15])
      s1 == SHA224_s1(w[i - 2])
  IN [w EXCEPT ![i] = band(add(add(add(w[i - 16], s0), w[i - 7]), s1), M32)]

\* one pass of the main loop 2.e, on the registers r = <<a, b, c, d, e, f, g, h>>
SHA224_round(r, i, w) ==
  LET a == r[1]
      b == r[2]
      c == r[3]
      d == r[4]
      e == r[5]
      f == r[6]
      g == r[7]
      h == r[8]
      S1 == band(bxor(bxor(rightrotate(e, 6), rightrotate(e, 11)), rightrotate(e, 25)), M32)
      ch == band(bxor(band(e, f), bandnot(e, g)), M32)
      temp1 == band(add(add(add(add(h, S1), ch), SHA224_k[i + 1]), w[i]), M32)
      S0 == band(bxor(bxor(rightrotate(a, 2), rightrotate(a, 13)), rightrotate(a, 22)), M32)
      maj == band(bxor(bxor(band(a, b), band(a, c)), band(b, c)), M32)
      temp2 == band(add(S0, maj), M32)
      new_a == band(add(temp1, temp2), M32)
      new_e == band(add(d, temp1), M32)
  IN <<new_a, a, b, c, new_e, e, f, g>>

\* "Add this chunk's hash to result so far"
SHA224_add_chunk(hs, r) == [j \in 1..8 |-> band(add(hs[j], r[j]), M32)]

\* SHA224.digest: the pieces it joins (all but h7), the binary digits it gives
\* each, and the sum
SHA224_pieces(hash_pieces) == SubSeq(hash_pieces, 1, Len(hash_pieces) - 1)

SHA224_piece_bits == 32

SHA224_digest(hash_pieces) ==
  LET pieces_without_h7 == SHA224_pieces(hash_pieces)
  IN SumShifted(Reverse(pieces_without_h7), SHA224_piece_bits, 0, <<>>)

(***************************************************************************)
(* class SHA512                                                            *)
(***************************************************************************)
SHA512_h ==
  << W64(\h6a09, \he667, \hf3bc, \hc908), W64(\hbb67, \hae85, \h84ca, \ha73b),
     W64(\h3c6e, \hf372, \hfe94, \hf82b), W64(\ha54f, \hf53a, \h5f1d, \h36f1),
     W64(\h510e, \h527f, \hade6, \h82d1), W64(\h9b05, \h688c, \h2b3e, \h6c1f),
     W64(\h1f83, \hd9ab, \hfb41, \hbd6b), W64(\h5be0, \hcd19, \h137e, \h2179) >>

SHA512_k ==
  << W64(\h428a, \h2f98, \hd728, \hae22), W64(\h7137, \h4491, \h23ef, \h65cd),
     W64(\hb5c0, \hfbcf, \hec4d, \h3b2f), W64(\he9b5, \hdba5, \h8189, \hdbbc),
     W64(\h3956, \hc25b, \hf348, \hb538), W64(\h59f1, \h11f1, \hb605, \hd019),
     W64(\h923f, \h82a4, \haf19, \h4f9b), W64(\hab1c, \h5ed5, \hda6d, \h8118),
     W64(\hd807, \haa98, \ha303, \h0242), W64(\h1283, \h5b01, \h4570, \h6fbe),
     W64(\h2431, \h85be, \h4ee4, \hb28c), W64(\h550c, \h7dc3, \hd5ff, \hb4e2),
     W64(\h72be, \h5d74, \hf27b, \h896f), W64(\h80de, \hb1fe, \h3b16, \h96b1),
     W64(\h9bdc, \h06a7, \h25c7, \h1235), W64(\hc19b, \hf174, \hcf69, \h2694),
     W64(\he49b, \h69c1, \h9ef1, \h4ad2), W64(\hefbe, \h4786, \h384f, \h25e3),
     W64(\h0fc1, \h9dc6, \h8b8c, \hd5b5), W64(\h240c, \ha1cc, \h77ac, \h9c65),
     W64(\h2de9, \h2c6f, \h592b, \h0275), W64(\h4a74, \h84aa, \h6ea6, \he483),
     W64(\h5cb0, \ha9dc, \hbd41, \hfbd4), W64(\h76f9, \h88da, \h8311, \h53b5),
     W64(\h983e, \h5152, \hee66, \hdfab), W64(\ha831, \hc66d, \h2db4, \h3210),
     W64(\hb003, \h27c8, \h98fb, \h213f), W64(\hbf59, \h7fc7, \hbeef, \h0ee4),
     W64(\hc6e0, \h0bf3, \h3da8, \h8fc2), W64(\hd5a7, \h9147, \h930a, \ha725),
     W64(\h06ca, \h6351, \he003, \h826f), W64(\h1429, \h2967, \h0a0e, \h6e70),
     W64(\h27b7, \h0a85, \h46d2, \h2ffc), W64(\h2e1b, \h2138, \h5c26, \hc926),
     W64(\h4d2c, \h6dfc, \h5ac4, \h2aed), W64(\h5338, \h0d13, \h9d95, \hb3df),
     W64(\h650a, \h7354, \h8baf, \h63de), W64(\h766a, \h0abb, \h3c77, \hb2a8),
     W64(\h81c2, \hc92e, \h47ed, \haee6), W64(\h9272, \h2c85, \h1482, \h353b),
     W64(\ha2bf, \he8a1, \h4cf1, \h0364), W64(\ha81a, \h664b, \hbc42, \h3001),
     W64(\hc24b, \h8b70, \hd0f8, \h9791), W64(\hc76c, \h51a3, \h0654, \hbe30),
     W64(\hd192, \he819, \hd6ef, \h5218), W64(\hd699, \h0624, \h5565, \ha910),
     W64(\hf40e, \h3585, \h5771, \h202a), W64(\h106a, \ha070, \h32bb, \hd1b8),
     W64(\h19a4, \hc116, \hb8d2, \hd0c8), W64(\h1e37, \h6c08, \h5141, \hab53),
     W64(\h2748, \h774c, \hdf8e, \heb99), W64(\h34b0, \hbcb5, \he19b, \h48a8),
     W64(\h391c, \h0cb3, \hc5c9, \h5a63), W64(\h4ed8, \haa4a, \he341, \h8acb),
     W64(\h5b9c, \hca4f, \h7763, \he373), W64(\h682e, \h6ff3, \hd6b2, \hb8a3),
     W64(\h748f, \h82ee, \h5def, \hb2fc), W64(\h78a5, \h636f, \h4317, \h2f60),
     W64(\h84c8, \h7814, \ha1f0, \hab72), W64(\h8cc7, \h0208, \h1a64, \h39ec),
     W64(\h90be, \hfffa, \h2363, \h1e28), W64(\ha450, \h6ceb, \hde82, \hbde9),
     W64(\hbef9, \ha3f7, \hb2c6, \h7915), W64(\hc671, \h78f2, \he372, \h532b),
     W64(\hca27, \h3ece, \hea26, \h619c), W64(\hd186, \hb8c7, \h21c0, \hc207),
     W64(\heada, \h7dd6, \hcde0, \heb1e), W64(\hf57d, \h4f7f, \hee6e, \hd178),
     W64(\h06f0, \h67aa, \h7217, \h6fba), W64(\h0a63, \h7dc5, \ha2c8, \h98a6),
     W64(\h113f, \h9804, \hbef9, \h0dae), W64(\h1b71, \h0b35, \h131c, \h471b),
     W64(\h28db, \h77f5, \h2304, \h7d84), W64(\h32ca, \hab7b, \h40c7, \h2493),
     W64(\h3c9e, \hbe0a, \h15c9, \hbebc), W64(\h431d, \h67c4, \h9c10, \h0d4c),
     W64(\h4cc5, \hd4be, \hcb3e, \h42b6), W64(\h597f, \h299c, \hfc65, \h7e2a),
     W64(\h5fcb, \h6fab, \h3ad6, \hfaec), W64(\h6c44, \h198c, \h4a47, \h5817) >>

SHA512_init ==
  [name |-> "SHA512", byteorder |-> "big", block_size |-> 128, digest_size |-> 64,
   hash_pieces |-> SHA512_h]

\* (8 * len(data)) & 0xFFFFFFFFFFFFFFFFFFFFFFFFFFFFFFFF, for len(data) = n
SHA512_orig_len_in_bits(n) == band(leftshift(n, 3), M128)

\* mutant of SHA512_zero_fill: the loop appends before it tests
RECURSIVE SHA512_zero_fill_dowhile(_)
SHA512_zero_fill_dowhile(d) ==
  LET e == Append(d, 0)
  IN IF Len(e) % 128 # 112 THEN SHA512_zero_fill_dowhile(e) ELSE e

\* while len(data) % 128 != 112: data.append(0)
RECURSIVE SHA512_zero_fill(_)
SHA512_zero_fill(d) == IF Len(d) % 128 # 112 THEN SHA512_zero_fill(Append(d, 0)) ELSE d

\* step 1 of update: the padded buffer
SHA512_preprocess(arg) ==
  LET orig_len_in_bits == SHA512_orig_len_in_bits(FromNat(Len(arg)))
  IN SHA512_zero_fill(Append(arg, 128)) \o to_bytes(orig_len_in_bits, 16)

SHA512_s0(x) ==
  band(bxor(bxor(rightrotate_64(x, 1), rightrotate_64(x, 8)), rightshift(x, 7)), M64)

SHA512_s1(x) ==
  band(bxor(bxor(rightrotate_64(x, 19), rightrotate_64(x, 61)), rightshift(x, 6)), M64)

\* steps 2.b: w[0..15] from the chunk, w[16..79] = 0
SHA512_words(chunks) ==
  [i \in 0..79 |-> IF i < 16 THEN from_bytes(SubSeq(chunks, 8 * i + 1, 8 * i + 8)) ELSE <<>>]

\* step 2.c: one pass of the loop for i in range(16, 80)
SHA512_extend(w, i) ==
  LET s0 == SHA512_s0(w[i - 15])
      s1 == SHA512_s1(w[i - 2])
  IN [w EXCEPT ![i] = band(add(add(add(w[i - 16], s0), w[i - 7]), s1), M64)]

\* mutant of SHA512_round: new_e is c + temp1 instead of d + temp1
SHA512_round_c(r, i, w) ==
  LET a == r[1]
      b == r[2]
      c == r[3]
      e == r[5]
      f == r[6]
      g == r[7]
      h == r[8]
      S1 == band(bxor(bxor(rightrotate_64(e, 14), rightrotate_64(e, 18)),
                      rightrotate_64(e, 41)), M64)
      ch == band(bxor(band(e, f), bandnot(e, g)), M64)
      temp1 == band(add(add(add(add(h, S1), ch), SHA512_k[i + 1]), w[i]), M64)
      S0 == band(bxor(bxor(rightrotate_64(a, 28), rightrotate_64(a, 34)),
                      rightrotate_64(a, 39)), M64)
      maj == band(bxor(bxor(band(a, b), band(a, c)), band(b, c)), M64)
      temp2 == band(add(S0, maj), M64)
      new_a == band(add(temp1, temp2), M64)
      new_e == band(add(c, temp1), M64)
  IN <<new_a, a, b, c, new_e, e, f, g>>

\* one pass of the main loop 2.e, on the registers r = <<a, b, c, d, e, f, g, h>>
SHA512_round(r, i, w) ==
  LET a == r[1]
      b == r[2]
      c == r[3]
      d == r[4]
      e == r[5]
      f == r[6]
      g == r[7]
      h == r[8]
      S1 == band(bxor(bxor(rightrotate_64(e, 14), rightrotate_64(e, 18)),
                      rightrotate_64(e, 41)), M64)
      ch == band(bxor(band(e, f), bandnot(e, g)), M64)
      temp1 == band(add(add(add(add(h, S1), ch), SHA512_k[i + 1]), w[i]), M64)
      S0 == band(bxor(bxor(rightrotate_64(a, 28), rightrotate_64(a, 34)),
                      rightrotate_64(a, 39)), M64)
      maj == band(bxor(bxor(band(a, b), band(a, c)), band(b, c)), M64)
      temp2 == band(add(S0, maj), M64)
      new_a == band(add(temp1, temp2), M64)
      new_e == band(add(d, temp1), M64)
  IN <<new_a, a, b, c, new_e, e, f, g>>

\* "Add this chunk's hash to result so far"
SHA512_add_chunk(hs, r) == [j \in 1..8 |-> band(add(hs[j], r[j]), M64)]

\* SHA512.digest: the pieces it joins (all eight), the binary digits it gives
\* each, and the sum
SHA512_pieces(hash_pieces) == hash_pieces

SHA512_piece_bits == 64

SHA512_digest(hash_pieces) ==
  SumShifted(Reverse(SHA512_pieces(hash_pieces)), SHA512_piece_bits, 0, <<>>)

(***************************************************************************)
(* Inputs                                                                  *)
(***************************************************************************)
\* the characters of the texts below, in code order within each run
Chars == " 0123456789ABCDEFGHIJKLMNOPQRSTUVWXYZabcdefghijklmnopqrstuvwxyz"

\* the code point of a one-character string of Chars (all of them ASCII)
Code(c) ==
  LET j == CHOOSE n \in 1..Len(Chars) : SubSeq(Chars, n, n) = c
  IN IF j = 1 THEN 32
     ELSE IF j <= 11 THEN 48 + (j - 2)
     ELSE IF j <= 37 THEN 65 + (j - 12)
     ELSE 97 + (j - 38)

\* bytes(s, encoding='utf8') for a text of ASCII characters: one byte each
utf8(s) == [j \in 1..Len(s) |-> Code(SubSeq(s, j, j))]

\* n bytes of value b, and n bytes that differ from their neighbours
Rep(b, n) == [j \in 1..n |-> b]
Ramp(n) == [j \in 1..n |-> (7 * j + 1) % 256]

\* how many update() calls one object receives
MaxUpdates == 2

\* the byte strings passed to update(): the empty one, a short one, one whose
\* SHA224 digest starts with a zero digit, and one that fills whole blocks with
\* zeros
Args == { <<>>, utf8("abc"), Rep(0, 5), Rep(0, 128) }

\* the longest byte string whose padding is examined, and those byte strings
MaxLen == 260

PadArgs == { Ramp(n) : n \in 0..MaxLen } \cup { Rep(128, n) : n \in 0..MaxLen }

\* the texts of the known-answer vectors: the self-check's text and FIPS 180's
\* one-block and two-block messages
Text448 == "abcdbcdecdefdefgefghfghighijhijkijkljklmklmnlmnomnopnopq"
Text896 ==
  "abcdefghbcdefghicdefghijdefghijkefghijklfghijklmghijklmnhijklmnoijklmnopjklmnopqklmnopqrlmnopqrsmnopqrstnopqrstu"

\* what the shortcut functions are called with: a str or a bytes object
Str(s) == [kind |-> "str", val |-> s]
Bytes(bs) == [kind |-> "bytes", val |-> bs]

CallInputs ==
  { Str(""), Str("abc"), Str("Hello World"), Str(Text448), Str(Text896), Bytes(utf8("abc")) }

\* the buffer lengths whose length field is examined: 2^e and 2^e + 1 bytes, up
\* to the largest length a Python sequence can have (sys.maxsize = 2^63 - 1)
MaxExp == 62

Lengths == { add(leftshift(<<1>>, e), FromNat(d)) : e \in 0..MaxExp, d \in 0..1 }

(***************************************************************************)
(* State                                                                   *)
(***************************************************************************)
VARIABLES
  self,      \* the hash object: name, byteorder, block_size, digest_size, hash_pieces
  pc,        \* "idle", or the position inside update(): "chunk", "extend", "round";
             \* "ret" in a shortcut function after update(); "len" after the length field
  data,      \* update(): the padded bytearray
  offset,    \* update(): offset of the current chunk
  w,         \* update(): the message schedule array
  i,         \* update(): index of the running loop (step 2.c or 2.e)
  regs,      \* update(): <<a, b, c, d, e, f, g, h>>
  hs,        \* update(): <<h0, h1, h2, h3, h4, h5, h6, h7>>
  out,       \* what the last digest(), hexdigest() or shortcut call returned
  err,       \* the exception raised, "none" if none
  fed,       \* history: the bytes passed to update() of this object so far
  nupd,      \* history: the number of update() calls on this object
  call,      \* the shortcut function being executed and its argument
  prev,      \* history: what an earlier shortcut call returned
  len_data   \* len(data) of a buffer given by its length alone

vars == <<self, pc, data, offset, w, i, regs, hs, out, err, fed, nupd, call, prev, len_data>>

locals == <<data, offset, w, i, regs, hs>>

\* Hash.__init__: the base class's fields, before a subclass sets its own
Hash_init ==
  [name |-> "Hash", byteorder |-> "little", block_size |-> 0, digest_size |-> 0,
   hash_pieces |-> <<>>]

NoArg == [kind |-> "none", val |-> <<>>]
NoCall == [fn |-> "none", arg |-> NoArg]
NoOut == [op |-> "none", arg |-> NoArg, val |-> <<>>]

Init ==
  /\ self = Hash_init
  /\ pc = "idle"
  /\ data = <<>>
  /\ offset = 0
  /\ w = <<>>
  /\ i = 0
  /\ regs = <<>>
  /\ hs = <<>>
  /\ out = NoOut
  /\ err = "none"
  /\ fed = <<>>
  /\ nupd = 0
  /\ call = NoCall
  /\ prev = NoOut
  /\ len_data = <<>>

(***************************************************************************)
(* SHA224: the constructor call and update(), one action per step         *)
(***************************************************************************)
\* h = SHA224()
SHA224_new ==
  /\ pc = "idle" /\ call.fn = "none"
  /\ self' = SHA224_init
  /\ fed' = <<>> /\ nupd' = 0 /\ out' = NoOut
  /\ UNCHANGED <<pc, locals, err, call, prev, len_data>>

\* SHA224.update on entry, up to the assert that ends step 1: the locals h0..h7 and
\* the padded data; a failing assert raises AssertionError
SHA224_enter(hash_pieces, arg) ==
  LET padded == SHA224_preprocess(arg)
  IN IF Len(padded) % 64 = 0
     THEN /\ data' = padded /\ hs' = hash_pieces /\ offset' = 0 /\ pc' = "chunk"
          /\ UNCHANGED <<w, i, regs, err>>
     ELSE /\ err' = "AssertionError" /\ pc' = "idle"
          /\ UNCHANGED <<data, hs, offset, w, i, regs>>

\* h.update(arg), step 1
SHA224_update_begin(arg) ==
  /\ pc = "idle" /\ call.fn = "none" /\ self.name = "SHA224" /\ err = "none"
  /\ nupd < MaxUpdates
  /\ SHA224_enter(self.hash_pieces, arg)
  /\ fed' = fed \o arg /\ nupd' = nupd + 1 /\ out' = NoOut
  /\ UNCHANGED <<self, call, prev, len_data>>

\* for offset in range(0, len(data), 64): steps 2.a and 2.b
SHA224_update_chunk ==
  /\ pc = "chunk" /\ self.name = "SHA224" /\ offset < Len(data)
  /\ LET chunks == SubSeq(data, offset + 1, Min(offset + 64, Len(data)))
     IN w' = SHA224_words(chunks)
  /\ i' = 16 /\ pc' = "extend"
  /\ UNCHANGED <<self, data, offset, regs, hs, out, err, fed, nupd, call, prev, len_data>>

\* for i in range(16, 64): one pass of step 2.c
SHA224_update_extend ==
  /\ pc = "extend" /\ self.name = "SHA224" /\ i < 64
  /\ w' = SHA224_extend(w, i)
  /\ i' = i + 1
  /\ UNCHANGED <<self, pc, data, offset, regs, hs, out, err, fed, nupd, call, prev, len_data>>

\* step 2.d, once the schedule is complete
SHA224_update_regs ==
  /\ pc = "extend" /\ self.name = "SHA224" /\ i >= 64
  /\ regs' = hs /\ i' = 0 /\ pc' = "round"
  /\ UNCHANGED <<self, data, offset, w, hs, out, err, fed, nupd, call, prev, len_data>>

\* for i in range(64): one pass of the main loop 2.e
SHA224_update_round ==
  /\ pc = "round" /\ self.name = "SHA224" /\ i < 64
  /\ regs' = SHA224_round(regs, i, w)
  /\ i' = i + 1
  /\ UNCHANGED <<self, pc, data, offset, w, hs, out, err, fed, nupd, call, prev, len_data>>

\* after the main loop: add the chunk's hash and go to the next chunk (w, i and
\* the registers are dead until the next chunk sets them)
SHA224_update_add ==
  /\ pc = "round" /\ self.name = "SHA224" /\ i >= 64
  /\ hs' = SHA224_add_chunk(hs, regs)
  /\ offset' = offset + 64 /\ pc' = "chunk"
  /\ w' = <<>> /\ i' = 0 /\ regs' = <<>>
  /\ UNCHANGED <<self, data, out, err, fed, nupd, call, prev, len_data>>

\* step 3, after the last chunk: store the hash pieces and return
SHA224_update_end ==
  /\ pc = "chunk" /\ self.name = "SHA224" /\ offset >= Len(data)
  /\ self' = [self EXCEPT !.hash_pieces = hs]
  /\ pc' = IF call.fn = "none" THEN "idle" ELSE "ret"
  /\ data' = <<>> /\ offset' = 0 /\ hs' = <<>>
  /\ UNCHANGED <<w, i, regs, out, err, fed, nupd, call, prev, len_data>>

\* the steps of SHA224.update after its entry
SHA224_update_steps ==
  \/ SHA224_update_chunk
  \/ SHA224_update_extend
  \/ SHA224_update_regs
  \/ SHA224_update_round
  \/ SHA224_update_add
  \/ SHA224_update_end

\* mutant of hash_SHA224_call: the hash pieces are shared by all SHA224 objects
\* (kept from the object before) instead of being set by the constructor
hash_SHA224_call_shared(arg) ==
  /\ pc = "idle" /\ call.fn = "none" /\ err = "none"
  /\ LET h == IF self.name = "SHA224" THEN self ELSE SHA224_init
         bytes == IF arg.kind = "str" THEN utf8(arg.val) ELSE arg.val
     IN /\ self' = h
        /\ SHA224_enter(h.hash_pieces, bytes)
        /\ fed' = bytes
  /\ nupd' = 1 /\ out' = NoOut
  /\ call' = [fn |-> "hash_SHA224", arg |-> arg]
  /\ \/ prev' = prev
     \/ prev' = out
  /\ UNCHANGED len_data

\* hash_SHA224(arg) up to the entry of update(): a new object, the text encoded;
\* the history may keep what the call before returned
hash_SHA224_call(arg) ==
  /\ pc = "idle" /\ call.fn = "none" /\ err = "none"
  /\ LET h == SHA224_init
         bytes == IF arg.kind = "str" THEN utf8(arg.val) ELSE arg.val
     IN /\ self' = h
        /\ SHA224_enter(h.hash_pieces, bytes)
        /\ fed' = bytes
  /\ nupd' = 1 /\ out' = NoOut
  /\ call' = [fn |-> "hash_SHA224", arg |-> arg]
  /\ \/ prev' = prev
     \/ prev' = out
  /\ UNCHANGED len_data

\* the length field of a buffer of len_data bytes: orig_len_in_bits of update()
SHA224_update_length ==
  /\ pc = "idle" /\ self.name = "SHA224"
  /\ out' = [op |-> "orig_len_in_bits", arg |-> NoArg,
             val |-> SHA224_orig_len_in_bits(len_data)]
  /\ pc' = "len"
  /\ UNCHANGED <<self, locals, err, fed, nupd, call, prev, len_data>>

(***************************************************************************)
(* SHA512: the constructor call and update(), one action per step         *)
(***************************************************************************)
\* h = SHA512()
SHA512_new ==
  /\ pc = "idle" /\ call.fn = "none"
  /\ self' = SHA512_init
  /\ fed' = <<>> /\ nupd' = 0 /\ out' = NoOut
  /\ UNCHANGED <<pc, locals, err, call, prev, len_data>>

\* SHA512.update on entry, up to the assert that ends step 1: the locals h0..h7 and
\* the padded data; a failing assert raises AssertionError
SHA512_enter(hash_pieces, arg) ==
  LET padded == SHA512_preprocess(arg)
  IN IF Len(padded) % 128 = 0
     THEN /\ data' = padded /\ hs' = hash_pieces /\ offset' = 0 /\ pc' = "chunk"
          /\ UNCHANGED <<w, i, regs, err>>
     ELSE /\ err' = "AssertionError" /\ pc' = "idle"
          /\ UNCHANGED <<data, hs, offset, w, i, regs>>

\* h.update(arg), step 1
SHA512_update_begin(arg) ==
  /\ pc = "idle" /\ call.fn = "none" /\ self.name = "SHA512" /\ err = "none"
  /\ nupd < MaxUpdates
  /\ SHA512_enter(self.hash_pieces, arg)
  /\ fed' = fed \o arg /\ nupd' = nupd + 1 /\ out' = NoOut
  /\ UNCHANGED <<self, call, prev, len_data>>

\* for offset in range(0, len(data), 128): steps 2.a and 2.b
SHA512_update_chunk ==
  /\ pc = "chunk" /\ self.name = "SHA512" /\ offset < Len(data)
  /\ LET chunks == SubSeq(data, offset + 1, Min(offset + 128, Len(data)))
     IN w' = SHA512_words(chunks)
  /\ i' = 16 /\ pc' = "extend"
  /\ UNCHANGED <<self, data, offset, regs, hs, out, err, fed, nupd, call, prev, len_data>>

\* for i in range(16, 80): one pass of step 2.c
SHA512_update_extend ==
  /\ pc = "extend" /\ self.name = "SHA512" /\ i < 80
  /\ w' = SHA512_extend(w, i)
  /\ i' = i + 1
  /\ UNCHANGED <<self, pc, data, offset, regs, hs, out, err, fed, nupd, call, prev, len_data>>

\* step 2.d, once the schedule is complete
SHA512_update_regs ==
  /\ pc = "extend" /\ self.name = "SHA512" /\ i >= 80
  /\ regs' = hs /\ i' = 0 /\ pc' = "round"
  /\ UNCHANGED <<self, data, offset, w, hs, out, err, fed, nupd, call, prev, len_data>>

\* for i in range(80): one pass of the main loop 2.e
SHA512_update_round ==
  /\ pc = "round" /\ self.name = "SHA512" /\ i < 80
  /\ regs' = SHA512_round(regs, i, w)
  /\ i' = i + 1
  /\ UNCHANGED <<self, pc, data, offset, w, hs, out, err, fed, nupd, call, prev, len_data>>

\* after the main loop: add the chunk's hash and go to the next chunk (w, i and
\* the registers are dead until the next chunk sets them)
SHA512_update_add ==
  /\ pc = "round" /\ self.name = "SHA512" /\ i >= 80
  /\ hs' = SHA512_add_chunk(hs, regs)
  /\ offset' = offset + 128 /\ pc' = "chunk"
  /\ w' = <<>> /\ i' = 0 /\ regs' = <<>>
  /\ UNCHANGED <<self, data, out, err, fed, nupd, call, prev, len_data>>

\* step 3, after the last chunk: store the hash pieces and return
SHA512_update_end ==
  /\ pc = "chunk" /\ self.name = "SHA512" /\ offset >= Len(data)
  /\ self' = [self EXCEPT !.hash_pieces = hs]
  /\ pc' = IF call.fn = "none" THEN "idle" ELSE "ret"
  /\ data' = <<>> /\ offset' = 0 /\ hs' = <<>>
  /\ UNCHANGED <<w, i, regs, out, err, fed, nupd, call, prev, len_data>>

\* the steps of SHA512.update after its entry
SHA512_update_steps ==
  \/ SHA512_update_chunk
  \/ SHA512_update_extend
  \/ SHA512_update_regs
  \/ SHA512_update_round
  \/ SHA512_update_add
  \/ SHA512_update_end

\* hash_SHA512(arg) up to the entry of update(): a new object, the text encoded;
\* the history may keep what the call before returned
hash_SHA512_call(arg) ==
  /\ pc = "idle" /\ call.fn = "none" /\ err = "none"
  /\ LET h == SHA512_init
         bytes == IF arg.kind = "str" THEN utf8(arg.val) ELSE arg.val
     IN /\ self' = h
        /\ SHA512_enter(h.hash_pieces, bytes)
        /\ fed' = bytes
  /\ nupd' = 1 /\ out' = NoOut
  /\ call' = [fn |-> "hash_SHA512", arg |-> arg]
  /\ \/ prev' = prev
     \/ prev' = out
  /\ UNCHANGED len_data

\* the length field of a buffer of len_data bytes: orig_len_in_bits of update()
SHA512_update_length ==
  /\ pc = "idle" /\ self.name = "SHA512"
  /\ out' = [op |-> "orig_len_in_bits", arg |-> NoArg,
             val |-> SHA512_orig_len_in_bits(len_data)]
  /\ pc' = "len"
  /\ UNCHANGED <<self, locals, err, fed, nupd, call, prev, len_data>>

(***************************************************************************)
(* digest(), hexdigest() and the return of the shortcut functions          *)
(***************************************************************************)
\* obj.digest(), by the object's class
digest_of(obj) ==
  IF obj.name = "SHA224" THEN SHA224_digest(obj.hash_pieces)
  ELSE SHA512_digest(obj.hash_pieces)

\* h.digest()
Digest ==
  /\ pc = "idle" /\ call.fn = "none" /\ self.name # "Hash" /\ err = "none"
  /\ out' = [op |-> "digest", arg |-> NoArg, val |-> digest_of(self)]
  /\ UNCHANGED <<self, pc, locals, err, fed, nupd, call, prev, len_data>>

\* h.hexdigest()
HexDigest ==
  /\ pc = "idle" /\ call.fn = "none" /\ self.name # "Hash" /\ err = "none"
  /\ LET s == hexdigest(self, digest_of(self))
     IN IF s = "OverflowError"
        THEN err' = s /\ out' = out
        ELSE err' = err /\ out' = [op |-> "hexdigest", arg |-> NoArg, val |-> s]
  /\ UNCHANGED <<self, pc, locals, fed, nupd, call, prev, len_data>>

\* return h.hexdigest() of hash_SHA224 and hash_SHA512
hash_return ==
  /\ pc = "ret"
  /\ LET s == hexdigest(self, digest_of(self))
     IN IF s = "OverflowError"
        THEN err' = s /\ out' = out
        ELSE err' = err /\ out' = [op |-> call.fn, arg |-> call.arg, val |-> s]
  /\ call' = NoCall /\ pc' = "idle"
  /\ UNCHANGED <<self, locals, fed, nupd, prev, len_data>>

(***************************************************************************)
(* Specifications                                                          *)
(***************************************************************************)
\* objects used through their methods
Next ==
  \/ SHA224_new
  \/ SHA512_new
  \/ \E arg \in Args : SHA224_update_begin(arg)
  \/ \E arg \in Args : SHA512_update_begin(arg)
  \/ SHA224_update_steps
  \/ SHA512_update_steps
  \/ Digest
  \/ HexDigest

Spec == Init /\ [][Next]_vars

\* the shortcut functions, called one after the other
NextCalls ==
  \/ \E arg \in CallInputs : hash_SHA224_call(arg)
  \/ \E arg \in CallInputs : hash_SHA512_call(arg)
  \/ SHA224_update_steps
  \/ SHA512_update_steps
  \/ hash_return

SpecCalls == Init /\ [][NextCalls]_vars

\* the pre-processing (step 1 of update) of byte strings of every length up to
\* MaxLen, observed when the padded buffer is complete
NextPad ==
  \/ SHA224_new
  \/ SHA512_new
  \/ \E arg \in PadArgs : SHA224_update_begin(arg)
  \/ \E arg \in PadArgs : SHA512_update_begin(arg)

SpecPad == Init /\ [][NextPad]_vars

\* the length field of update() on buffers given by their length
InitLen ==
  /\ self \in {SHA224_init, SHA512_init}
  /\ len_data \in Lengths
  /\ pc = "idle"
  /\ data = <<>>
  /\ offset = 0
  /\ w = <<>>
  /\ i = 0
  /\ regs = <<>>
  /\ hs = <<>>
  /\ out = NoOut
  /\ err = "none"
  /\ fed = <<>>
  /\ nupd = 0
  /\ call = NoCall
  /\ prev = NoOut

NextLen ==
  \/ SHA224_update_length
  \/ SHA512_update_length

SpecLen == InitLen /\ [][NextLen]_vars

(***************************************************************************)
(* Reference values and reference definitions.  The digests are those of   *)
(* FIPS 180-4 for its example messages and of a conformant implementation  *)
(* for the other texts; the functions are FIPS 180-4's, written on binary  *)
(* digits, independently of the helper functions of the source.            *)
(***************************************************************************)
KnownTexts == << "", "abc", "Hello World", Text448, Text896 >>

KnownSHA224 ==
  << "d14a028c2a3a2bc9476102bb288234c415a2b01f828ea62ac5b3e42f",
     "23097d223405d8228642a477bda255b32aadbce4bda0b3f7e36c9da7",
     "c4890faffdb0105d991a461e668e276685401b02eab1ef4372795047",
     "75388b16512776cc5dba5da1fd890150b0c6455cb4f58b1952522525",
     "c97ca9a559850ce97a04a96def6d99a9e0e0e2ab14e6b8df265fc0b3" >>

KnownSHA512 ==
  << "cf83e1357eefb8bdf1542850d66d8007d620e4050b5715dc83f4a921d36ce9ce"
       \o "47d0d13c5d85f2b0ff8318d2877eec2f63b931bd47417a81a538327af927da3e",
     "ddaf35a193617abacc417349ae20413112e6fa4e89a97ea20a9eeee64b55d39a"
       \o "2192992a274fc1a836ba3c23a3feebbd454d4423643ce80e2a9ac94fa54ca49f",
     "2c74fd17edafd80e8447b0d46741ee243b7eb74dd2149a0ab1b9246fb30382f2"
       \o "7e853d8585719e0e67cbda0daa8f51671064615d645ae27acb15bfb1447f459b",
     "204a8fc6dda82f0a0ced7beb8e08a41657c16ef468b228a8279be331a703c335"
       \o "96fd15c13b1b07f9aa1d3bea57789ca031ad85c7a71dd70354ec631238ca3445",
     "8e959b75dae313da8cf4f72814fc143f8f7779c6eb9f7fa17299aeadb6889018"
       \o "501d289e4900f7e4331b99dec4b5433ac7d329eeb6dd26545e96e55b874be909" >>

\* the bytes of the known texts, written out byte by byte for the short ones
KnownBytes(n) ==
  IF n = 1 THEN <<>>
  ELSE IF n = 2 THEN <<97, 98, 99>>
  ELSE IF n = 3 THEN <<72, 101, 108, 108, 111, 32, 87, 111, 114, 108, 100>>
  ELSE IF n = 4 THEN [j \in 1..56 |-> 97 + ((j - 1) \div 4) + ((j - 1) % 4)]
  ELSE [j \in 1..112 |-> 97 + ((j - 1) \div 8) + ((j - 1) % 8)]

IsKnown(bs) == \E n \in 1..Len(KnownTexts) : KnownBytes(n) = bs

\* the published digest of the byte string bs, by class name
KnownDigest(name, bs) ==
  LET n == CHOOSE m \in 1..Len(KnownTexts) : KnownBytes(m) = bs
  IN IF name = "SHA224" THEN KnownSHA224[n] ELSE KnownSHA512[n]

\* the bytes a shortcut call's argument stands for
ArgBytes(arg) ==
  IF arg.kind = "str"
  THEN KnownBytes(CHOOSE m \in 1..Len(KnownTexts) : KnownTexts[m] = arg.val)
  ELSE arg.val

SameArg(x, y) == x.kind = y.kind /\ x.val = y.val

\* the parameters of the two variants
IsObject == self.name \in {"SHA224", "SHA512"}
WordBits(name) == IF name = "SHA224" THEN 32 ELSE 64
BlockBytes(name) == IF name = "SHA224" THEN 64 ELSE 128
FieldBytes(name) == IF name = "SHA224" THEN 8 ELSE 16
Rounds(name) == IF name = "SHA224" THEN 64 ELSE 80
DigestBytes(name) == IF name = "SHA224" THEN 28 ELSE 64
RoundConstants(name) == IF name = "SHA224" THEN SHA224_k ELSE SHA512_k
InitVector(name) == IF name = "SHA224" THEN SHA224_h ELSE SHA512_h

\* binary digit n (0 = least significant) of x
RefBit(x, n) == (Limb(x, n \div 16 + 1) \div 2^(n % 16)) % 2

\* the number whose binary digits 0..bits-1 are f[0], f[1], ...
RECURSIVE RefDigit(_, _, _)
RefDigit(f, first, n) == IF n = 16 THEN 0 ELSE f[first + n] + 2 * RefDigit(f, first, n + 1)

RefWord(f, bits) == Norm([j \in 1..(bits \div 16) |-> RefDigit(f, 16 * (j - 1), 0)])

\* ROTR^c(x) and SHR^c(x) on words of the given number of binary digits
RefRotr(x, c, bits) == RefWord([n \in 0..(bits - 1) |-> RefBit(x, (n + c) % bits)], bits)

RefShr(x, c, bits) ==
  RefWord([n \in 0..(bits - 1) |-> IF n + c < bits THEN RefBit(x, n + c) ELSE 0], bits)

RefXor3(x, y, z, bits) ==
  RefWord([n \in 0..(bits - 1) |-> (RefBit(x, n) + RefBit(y, n) + RefBit(z, n)) % 2], bits)

\* Ch(e, f, g): f where e has a 1, g where it has a 0; Maj(a, b, c): the majority
RefCh(e, f, g, bits) ==
  RefWord([n \in 0..(bits - 1) |-> IF RefBit(e, n) = 1 THEN RefBit(f, n) ELSE RefBit(g, n)],
          bits)

RefMaj(a, b, c, bits) ==
  RefWord([n \in 0..(bits - 1) |->
             IF RefBit(a, n) + RefBit(b, n) + RefBit(c, n) >= 2 THEN 1 ELSE 0], bits)

\* the sum of the words xs modulo 2^bits
RECURSIVE RefColumn(_, _, _)
RefColumn(xs, j, n) == IF n > Len(xs) THEN 0 ELSE Limb(xs[n], j) + RefColumn(xs, j, n + 1)

RECURSIVE RefCarry(_, _)
RefCarry(xs, j) ==
  IF j <= 1 THEN 0 ELSE (RefColumn(xs, j - 1, 1) + RefCarry(xs, j - 1)) \div 2^16

RefSum(xs, bits) ==
  Norm([j \in 1..(bits \div 16) |-> (RefColumn(xs, j, 1) + RefCarry(xs, j)) % 2^16])

\* the four mixing functions, with the rotate amounts of each variant
RefBigSigma0(x, name) ==
  IF name = "SHA224"
  THEN RefXor3(RefRotr(x, 2, 32), RefRotr(x, 13, 32), RefRotr(x, 22, 32), 32)
  ELSE RefXor3(RefRotr(x, 28, 64), RefRotr(x, 34, 64), RefRotr(x, 39, 64), 64)

RefBigSigma1(x, name) ==
  IF name = "SHA224"
  THEN RefXor3(RefRotr(x, 6, 32), RefRotr(x, 11, 32), RefRotr(x, 25, 32), 32)
  ELSE RefXor3(RefRotr(x, 14, 64), RefRotr(x, 18, 64), RefRotr(x, 41, 64), 64)

RefSmallSigma0(x, name) ==
  IF name = "SHA224"
  THEN RefXor3(RefRotr(x, 7, 32), RefRotr(x, 18, 32), RefShr(x, 3, 32), 32)
  ELSE RefXor3(RefRotr(x, 1, 64), RefRotr(x, 8, 64), RefShr(x, 7, 64), 64)

RefSmallSigma1(x, name) ==
  IF name = "SHA224"
  THEN RefXor3(RefRotr(x, 17, 32), RefRotr(x, 19, 32), RefShr(x, 10, 32), 32)
  ELSE RefXor3(RefRotr(x, 19, 64), RefRotr(x, 61, 64), RefShr(x, 6, 64), 64)

\* one round on the registers r = <<a, ..., h>> with round constant kk and
\* schedule word ww
RefRound(r, kk, ww, name) ==
  LET bits == WordBits(name)
      t1 == RefSum(<<r[8], RefBigSigma1(r[5], name), RefCh(r[5], r[6], r[7], bits), kk, ww>>,
                   bits)
      t2 == RefSum(<<RefBigSigma0(r[1], name), RefMaj(r[1], r[2], r[3], bits)>>, bits)
  IN <<RefSum(<<t1, t2>>, bits), r[1], r[2], r[3], RefSum(<<r[4], t1>>, bits), r[5], r[6], r[7]>>

\* word j (0..15) of a block: its bytes taken big-endian
RefBlockWord(block, j, name) ==
  LET nb == WordBits(name) \div 8
  IN Norm([n \in 1..(nb \div 2) |->
             256 * block[nb * j + nb - 2 * n + 1] + block[nb * j + nb - 2 * n + 2]])

\* the text of a 16-bit digit in four hexadecimal characters, and of the words
\* ws[n..] with the given number of digits each, most significant first
RefHexChar(v) == SubSeq("0123456789abcdef", v + 1, v + 1)

RefHex4(d) ==
  RefHexChar(d \div 4096) \o RefHexChar((d \div 256) % 16) \o RefHexChar((d \div 16) % 16)
    \o RefHexChar(d % 16)

RECURSIVE RefHexLimbs(_, _)
RefHexLimbs(x, j) == IF j = 0 THEN "" ELSE RefHex4(Limb(x, j)) \o RefHexLimbs(x, j - 1)

RECURSIVE RefHexWords(_, _, _, _)
RefHexWords(ws, n, last, limbs) ==
  IF n > last THEN "" ELSE RefHexLimbs(ws[n], limbs) \o RefHexWords(ws, n + 1, last, limbs)

\* the value v < 2^31 as a big-endian field of n bytes
RefBigEndian(v, n) == [j \in 1..n |-> IF n - j >= 4 THEN 0 ELSE (v \div 256^(n - j)) % 256]

(***************************************************************************)
(* Claims                                                                  *)
(***************************************************************************)
ShortcutReturned == pc = "idle" /\ out.op \in {"hash_SHA224", "hash_SHA512"}

\* C1: whatever hash_SHA224(m) and hash_SHA512(m) return is, character for
\* character, the published SHA-224 resp. SHA-512 digest of m (the empty text,
\* "abc", "Hello World", the FIPS 180-4 two-block messages; text encoded as UTF-8)
C1_KnownAnswers ==
  ShortcutReturned =>
    /\ err = "none"
    /\ out.val = KnownDigest(IF out.op = "hash_SHA224" THEN "SHA224" ELSE "SHA512",
                             ArgBytes(out.arg))

\* C1 witness: hash_SHA512 has returned for the 112-character two-block message
C1_Witness == ShortcutReturned /\ out.op = "hash_SHA512" /\ SameArg(out.arg, Str(Text896))

\* C2: digest() is below 2^(8 * digest_size) (28 bytes for SHA224, 64 for SHA512)
\* and hexdigest() is exactly 2 * digest_size lowercase hexadecimal characters
\* that spell the hash pieces digit for digit, leading zeros included; neither
\* call raises
C2_FixedSize ==
  /\ err = "none"
  /\ out.op = "digest" =>
       /\ self.digest_size = DigestBytes(self.name)
       /\ BitLength(out.val) <= 8 * DigestBytes(self.name)
  /\ out.op = "hexdigest" =>
       /\ Len(out.val) = 2 * DigestBytes(self.name)
       /\ \A n \in 1..Len(out.val) :
            \E v \in 0..15 : SubSeq(out.val, n, n) = RefHexChar(v)
       /\ out.val = RefHexWords(self.hash_pieces, 1,
                                (8 * DigestBytes(self.name)) \div WordBits(self.name),
                                WordBits(self.name) \div 16)

\* C2 witness: a SHA224 hexdigest() that starts with a zero digit
C2_Witness == out.op = "hexdigest" /\ self.name = "SHA224" /\ SubSeq(out.val, 1, 1) = "0"

\* the number of zero bytes the padding of a message of n bytes needs: the least
\* z with n + 1 + z congruent to block_size - length_field_size
PadZeros(n, name) ==
  CHOOSE z \in 0..(BlockBytes(name) - 1) :
    /\ (n + 1 + z) % BlockBytes(name) = BlockBytes(name) - FieldBytes(name)
    /\ \A y \in 0..(z - 1) :
         (n + 1 + y) % BlockBytes(name) # BlockBytes(name) - FieldBytes(name)

\* update() has been entered once on a new object with argument fed
Padded == IsObject /\ nupd = 1

\* C3: the padded buffer is the message, one byte 0x80, the least number of zero
\* bytes that makes the length 56 mod 64 (SHA224) resp. 112 mod 128 (SHA512), and
\* the message's bit length as a big-endian field of 8 resp. 16 bytes; its
\* length is a multiple of the block size and the padding assert does not fail
C3_Padding ==
  Padded =>
    /\ err = "none"
    /\ pc = "chunk"
    /\ data = fed \o <<128>> \o Rep(0, PadZeros(Len(fed), self.name))
                \o RefBigEndian(8 * Len(fed), FieldBytes(self.name))
    /\ Len(data) % BlockBytes(self.name) = 0

\* C3 witness: SHA224 has padded a message of 56 bytes, which needs 63 zero bytes
C3_Witness ==
  Padded /\ pc = "chunk" /\ self.name = "SHA224" /\ Len(fed) = 56 /\ PadZeros(56, "SHA224") = 63

\* C4 (as claimed): a buffer whose bit length does not fit the length field (64
\* binary digits for SHA224, 128 for SHA512) makes update() raise InputTooLarge
\* and compute no length field
C4_InputTooLarge ==
  (pc = "len" /\ BitLength(len_data) + 3 > 8 * FieldBytes(self.name)) =>
    (err = "InputTooLarge" /\ out.op = "none")

\* C5 (as claimed): whenever the object is at rest, its digest is the published
\* digest of everything passed to update() so far (of the empty message when
\* update() was never called)
C5_DigestOfConcatenation ==
  (pc = "idle" /\ IsObject /\ err = "none" /\ IsKnown(fed)) =>
    hexdigest(self, digest_of(self)) = KnownDigest(self.name, fed)

\* prev holds the result of an earlier call of the same function with the same
\* argument as the call that has just returned
SameCallTwice == ShortcutReturned /\ prev.op = out.op /\ SameArg(prev.arg, out.arg)

\* C6: two calls of hash_SHA224 (hash_SHA512) with the same argument return the
\* same digest, whatever was called in between
C6_Deterministic == SameCallTwice => out.val = prev.val

\* C6 witness: hash_SHA224("Hello World") has returned a second time
C6_Witness == SameCallTwice /\ out.op = "hash_SHA224" /\ SameArg(out.arg, Str("Hello World"))

\* C7 (as claimed): the padded length is two blocks beyond the message's whole
\* blocks when the message length is block_size - 1 modulo block_size, one
\* block beyond them otherwise
C7_TwoBlocksOnlyAtLast ==
  (Padded /\ pc = "chunk") =>
    LET B == BlockBytes(self.name)
        q == Len(fed) \div B
    IN Len(data) = IF Len(fed) % B = B - 1 THEN (q + 2) * B ELSE (q + 1) * B

\* C7 (amended): the padded length is two blocks beyond the message's whole
\* blocks when the message length modulo block_size is at least block_size -
\* length_field_size (56..63 for SHA224, 112..127 for SHA512), one block beyond
\* them otherwise
C7_PaddedLength ==
  Padded =>
    /\ pc = "chunk"
    /\ LET B == BlockBytes(self.name)
           q == Len(fed) \div B
       IN Len(data) = IF Len(fed) % B >= B - FieldBytes(self.name)
                      THEN (q + 2) * B ELSE (q + 1) * B

\* C7 witness: a message of 1 block + 112 bytes padded by SHA512 to 3 blocks
C7_Witness ==
  Padded /\ pc = "chunk" /\ self.name = "SHA512" /\ Len(fed) = 240 /\ Len(data) = 384

\* the words digest() leaves out
DroppedWords ==
  Len(self.hash_pieces)
    - Len(IF self.name = "SHA224" THEN SHA224_pieces(self.hash_pieces)
          ELSE SHA512_pieces(self.hash_pieces))

\* the binary digits digest() gives each word
PieceBits == IF self.name = "SHA224" THEN SHA224_piece_bits ELSE SHA512_piece_bits

\* C8 (as claimed): for both classes 8 * digest_size = 32 * (8 - dropped words),
\* with 8 hash pieces, 1 word dropped by SHA224 and none by SHA512
C8_DigestBits32 ==
  IsObject =>
    /\ Len(self.hash_pieces) = 8
    /\ DroppedWords = (IF self.name = "SHA224" THEN 1 ELSE 0)
    /\ 8 * self.digest_size = 32 * (Len(self.hash_pieces) - DroppedWords)

\* C8 (amended): 8 * digest_size = word size * (8 - dropped words), the word
\* size being the 32 binary digits of a SHA224 piece and the 64 of a SHA512
\* piece, with 8 hash pieces, 1 word dropped by SHA224 and none by SHA512
C8_DigestBits ==
  IsObject =>
    /\ Len(self.hash_pieces) = 8
    /\ DroppedWords = (IF self.name = "SHA224" THEN 1 ELSE 0)
    /\ PieceBits = WordBits(self.name)
    /\ 8 * self.digest_size = PieceBits * (Len(self.hash_pieces) - DroppedWords)

\* C8 witness: digest() has been called on a SHA512 object after an update
C8_Witness == self.name = "SHA512" /\ nupd = 1 /\ out.op = "digest"

\* the element-wise sum of two register vectors modulo 2^wordsize
RefAddWords(xs, ys, name) == [n \in 1..8 |-> RefSum(<<xs[n], ys[n]>>, WordBits(name))]

\* C9, step by step: update() starts from the object's hash pieces (the
\* initialization vector on a new object); the registers start as a copy of
\* the running state; round i applies the round function with K[i] and w[i]
\* and is followed by round i + 1; after round_count rounds, and only then, the
\* registers are added to the running state; the next block starts from that
\* sum, and the sum after the last block becomes the object's hash pieces
C9_Step ==
  /\ (pc = "idle" /\ pc' = "chunk") =>
       /\ hs' = self'.hash_pieces
       /\ nupd = 0 => hs' = InitVector(self'.name)
  /\ (pc = "chunk" /\ pc' = "extend") => hs' = hs
  /\ (pc = "extend" /\ pc' = "extend") => (hs' = hs /\ regs' = regs)
  /\ (pc = "extend" /\ pc' = "round") => (regs' = hs /\ hs' = hs /\ w' = w /\ i' = 0)
  /\ (pc = "round" /\ pc' = "round") =>
       /\ i < Rounds(self.name)
       /\ i' = i + 1
       /\ regs' = RefRound(regs, RoundConstants(self.name)[i + 1], w[i], self.name)
       /\ hs' = hs /\ w' = w
  /\ (pc = "round" /\ pc' # "round") =>
       /\ i = Rounds(self.name)
       /\ pc' = "chunk"
       /\ hs' = RefAddWords(hs, regs, self.name)
       /\ offset' = offset + BlockBytes(self.name)
  /\ (pc = "chunk" /\ pc' \in {"idle", "ret"}) =>
       (offset = Len(data) /\ self'.hash_pieces = hs)

\* C9: every step of every update() is as C9_Step says
C9_Compression == [][C9_Step]_vars

\* C9 witness: SHA512 has added the second block of a message to the state that
\* the first block left
C9_Witness == pc = "chunk" /\ self.name = "SHA512" /\ offset = 256 /\ nupd = 1

\* the schedule of the current chunk is complete
ScheduleDone == pc = "extend" /\ i = Rounds(self.name)

CurrentBlock == SubSeq(data, offset + 1, offset + BlockBytes(self.name))

\* C10: w[0..15] are the block's big-endian words, every later w[j] is
\* w[j-16] + sigma0(w[j-15]) + w[j-7] + sigma1(w[j-2]) modulo 2^wordsize with
\* the variant's sigma functions, every w[j] is below 2^wordsize, and an
\* all-zero block gives w[0..16] all zero
C10_Schedule ==
  ScheduleDone =>
    /\ DOMAIN w = 0..(Rounds(self.name) - 1)
    /\ \A j \in 0..15 : w[j] = RefBlockWord(CurrentBlock, j, self.name)
    /\ \A j \in 16..(Rounds(self.name) - 1) :
         w[j] = RefSum(<<w[j - 16], RefSmallSigma0(w[j - 15], self.name), w[j - 7],
                         RefSmallSigma1(w[j - 2], self.name)>>, WordBits(self.name))
    /\ \A j \in DOMAIN w : BitLength(w[j]) <= WordBits(self.name)
    /\ (\A n \in 1..Len(CurrentBlock) : CurrentBlock[n] = 0) =>
         \A j \in 0..16 : w[j] = <<>>

\* C10 witness: SHA512 has completed the schedule of the all-zero first block
\* of a message of 128 zero bytes
C10_Witness ==
  /\ ScheduleDone /\ self.name = "SHA512" /\ offset = 0 /\ fed = Rep(0, 128)
  /\ \A n \in 1..128 : CurrentBlock[n] = 0

============================================================================
